---- MODULE Spec2Model ----
(***************************************************************************)
(* Time tracker server: the session registry (clock-in / clock-out), the   *)
(* breadcrumb store and the departure detector of server/routes.ts, over   *)
(* the two storage implementations of the repository (MemStorage and       *)
(* DrizzleStorage).                                                        *)
(*                                                                         *)
(* Every route handler is an async function.  One action of the model is   *)
(* one storage call of the handler together with the handler's own code up *)
(* to its next await.  With DrizzleStorage every storage call waits for    *)
(* the database, so other requests run between two calls of one handler.   *)
(* With MemStorage a storage call resolves without I/O: the handler goes   *)
(* on in the same microtask drain and no other request runs in between;    *)
(* only the timer in syncToGoogleSheets lets other requests in.            *)
(*                                                                         *)
(* The browser's side is the hook useWebSocket, with the sockets and the   *)
(* timers it makes, and the breadcrumb effect of the Dashboard component,  *)
(* whose requests are handled by the server above.                         *)
(*                                                                         *)
(* Coordinates are integers in units of 1/UnitsPerDegree of a degree, the  *)
(* decimal strings the client sends; distances are compared by their       *)
(* squares, so no square root is taken.  Times are milliseconds.           *)
(***************************************************************************)
EXTENDS Integers, Sequences, FiniteSets, Bags, TLC

VARIABLES
    backend,              \* "mem" | "drizzle": the module ./storage resolves to
    now,                  \* the clock read by new Date() / now()
    timeEntries,          \* Seq of time entries; the id of an entry is its index
    locationBreadcrumbs,  \* Seq of breadcrumbs, in insertion order
    locationDepartures,   \* Seq of departures, in insertion order
    events,               \* Bag of the messages handed to broadcast()
    responses,            \* Bag of the responses sent, by status and message
    req,                  \* the handlers in flight: slot -> position and locals
    budget,               \* requests the clients have yet to send
    ledger,               \* Bag of the departure ids syncToGoogleSheets has sent out
    syncReplies,          \* Bag of the bodies POST /api/sync-departures answered with
    clients,              \* wss.clients: listener -> its socket on the server
    sockets,              \* useWebSocket: the sockets made by new WebSocket, in order
    wsRef,                \* wsRef.current: a socket, or Null
    isConnected,          \* the state isConnected of the hook
    timers,               \* the timers made by setTimeout, in order
    reconnectTimeoutRef,  \* reconnectTimeoutRef.current: a timer, or Null
    reconnectAttemptsRef, \* reconnectAttemptsRef.current
    scheduled,            \* reconnections scheduled since a socket last opened
    disconnected,         \* disconnect() was called, and connect() not since
    activeTimeEntry,      \* Dashboard: the session the query gave, or NoSuchId
    geolocation,          \* <<latitude, longitude>> of useGeolocation, or <<>>
    currentLocation,      \* the position currentLocation was made from, or <<>>
    breadcrumbs,          \* the data of the breadcrumbs query: their timestamps
    sentAt                \* the times at which breadcrumbMutation.mutate was called

serverVars == <<backend, now, timeEntries, locationBreadcrumbs, locationDepartures,
                events, responses, req, budget, ledger, syncReplies, clients>>

hookVars == <<sockets, wsRef, isConnected, timers, reconnectTimeoutRef,
              reconnectAttemptsRef, scheduled, disconnected>>

dashVars == <<activeTimeEntry, geolocation, currentLocation, breadcrumbs, sentAt>>

vars == <<serverVars, hookVars, dashVars>>

(* ------------------------------ bounds -------------------------------- *)

MaxReqs == 2
MaxOps == 3
MaxSeqOps == 5
MaxTime == 36000
MaxSyncOps == 4
MaxSyncTime == 2000
MaxCastOps == 2
MaxHoursTime == 72000
MaxSockets == 6
MaxCalls == 2
MaxPosts == 3
MaxDashTime == 180000

Reqs == 1..MaxReqs
Employees == {"e1", "e2"}

\* The amounts of time that pass between two steps.
TickSteps == {36000}

(* ----------------------------- constants ------------------------------ *)

Null == -1
NoSuchId == 0
SyncDelayMs == 1000
MetersPerDegree == 111000
ThresholdMeters == 100

\* The unit of a coordinate: 5 cm of the planar approximation, so that the
\* offsets 0.0010 and 0.00105 degrees are whole numbers of units.
UnitsPerDegree == 20 * MetersPerDegree

\* The threshold in coordinate units: sqrt(d2) / UnitsPerDegree * 111000 > 100
\* exactly when sqrt(d2) > ThresholdUnits (the division is exact).
ThresholdUnits == (ThresholdMeters * UnitsPerDegree) \div MetersPerDegree

(* ------------------------------ values -------------------------------- *)

\* A latitude or longitude of a request body.
Num(n) == [kind |-> "num", v |-> n]
NaNString == [kind |-> "nan", v |-> 0]
NotAString == [kind |-> "notstring", v |-> 0]

\* The bodies a breadcrumb report is sent with: <<latitude, longitude>>.
CoordInputs ==
    { <<Num(0), Num(0)>>, <<Num(2220), Num(0)>>, <<Num(2331), Num(0)>>,
      <<Num(1200), Num(1600)>>, <<NaNString, Num(0)>>, <<Num(0), NotAString>> }

Idle == [pc |-> "idle", employeeId |-> "", id |-> NoSuchId,
         t |-> Null, hours |-> Null, lat |-> Num(0), lng |-> Num(0),
         crumb |-> 0, from |-> <<Num(0), Num(0)>>, dist |-> 0, dep |-> 0,
         unsynced |-> <<>>, results |-> <<>>]

\* res.status(...).json(...): the handler is over and its slot is free.
Respond(r, code) ==
    /\ req' = [req EXCEPT ![r] = Idle]
    /\ responses' = responses (+) SetToBag({code})

\* The handler stops at its next await.
Await(r, locals) ==
    /\ req' = [req EXCEPT ![r] = locals]
    /\ UNCHANGED responses

(* --------------------------- the scheduler ---------------------------- *)

\* A handler that waits for something outside the process: a free slot, or
\* the timer of syncToGoogleSheets.
Parked(q) == req[q].pc \in {"idle", "bc_sync", "bs_sync"}

\* Request r may take its next step.  With MemStorage the handler that is
\* running goes on until it parks.
CanRun(r) == backend = "drizzle" \/ \A q \in Reqs \ {r} : Parked(q)

\* A new request is given the lowest free slot.
FreeSlot(r) ==
    /\ req[r].pc = "idle"
    /\ \A q \in Reqs : q < r => req[q].pc # "idle"
    /\ budget > 0
    /\ CanRun(r)

(* ------------------------------ storage ------------------------------- *)

TimeEntryIds == DOMAIN timeEntries

\* isActive && !clockOutTime
ActiveEntry(e) == e.isActive /\ e.clockOutTime = Null

\* getActiveTimeEntry with the test of isActive negated.
getActiveTimeEntryInactive(employeeId) ==
    LET found == { i \in TimeEntryIds :
                     /\ timeEntries[i].employeeId = employeeId
                     /\ ~timeEntries[i].isActive }
    IN  IF found = {} THEN NoSuchId
        ELSE CHOOSE i \in found : \A j \in found : i <= j

\* MemStorage: Array.find over the map, in insertion order; DrizzleStorage:
\* the same condition with limit(1).  NoSuchId stands for undefined.
getActiveTimeEntry(employeeId) ==
    LET found == { i \in TimeEntryIds :
                     /\ timeEntries[i].employeeId = employeeId
                     /\ ActiveEntry(timeEntries[i]) }
    IN  IF found = {} THEN NoSuchId
        ELSE CHOOSE i \in found : \A j \in found : i <= j

getTimeEntry(id) == IF id \in TimeEntryIds THEN id ELSE NoSuchId

createTimeEntry(employeeId, clockInTime) ==
    Append(timeEntries,
           [employeeId |-> employeeId, clockInTime |-> clockInTime,
            clockOutTime |-> Null, totalHours |-> Null, isActive |-> TRUE])

updateTimeEntry(id, clockOutTime, totalHours) ==
    IF id \in TimeEntryIds
    THEN [timeEntries EXCEPT ![id] = [@ EXCEPT !.clockOutTime = clockOutTime,
                                               !.totalHours = totalHours,
                                               !.isActive = FALSE]]
    ELSE timeEntries

\* wss.clients.forEach(client => client.send(...)): the message sent is added
\* to those sent before.
broadcast(sent, type, id) == sent (+) SetToBag({[type |-> type, id |-> id]})

\* The dashboards that may connect to /ws.
Listeners == {1, 2}

\* A listener that has no socket in wss.clients.  received is what has come
\* to the listener so far, over all its connections.
Absent == [readyState |-> "absent", broken |-> FALSE,
           buffered |-> EmptyBag, received |-> EmptyBag]

\* client.send(JSON.stringify(data)): the message is put in the socket's
\* buffer, and the call returns.
send(client, data) == [client EXCEPT !.buffered = @ (+) SetToBag({data})]

\* broadcast that sends to every socket of wss.clients, whatever its state.
deliverToAll(cs, data) ==
    [c \in DOMAIN cs |-> IF cs[c].readyState # "absent"
                         THEN send(cs[c], data) ELSE cs[c]]

\* broadcast whose loop ends at the first socket that takes no data.
deliverTillBroken(cs, data) ==
    [c \in DOMAIN cs |-> IF /\ cs[c].readyState = "open"
                            /\ \A b \in DOMAIN cs : b <= c => ~cs[b].broken
                         THEN send(cs[c], data) ELSE cs[c]]

\* wss.clients.forEach(client => { if (client.readyState === WebSocket.OPEN)
\* client.send(...) }), on the sockets cs.
deliver(cs, data) ==
    [c \in DOMAIN cs |-> IF cs[c].readyState = "open"
                         THEN send(cs[c], data) ELSE cs[c]]

(* ------------------------------ clock-in ------------------------------ *)

\* POST /api/time-entries/clock-in: schema.parse(req.body).
ClockInRequest(r, employeeId, valid) ==
    /\ FreeSlot(r)
    /\ budget' = budget - 1
    /\ IF valid
       THEN Await(r, [Idle EXCEPT !.pc = "ci_getActive",
                                  !.employeeId = employeeId])
       ELSE Respond(r, "400 invalid clock-in data")
    /\ UNCHANGED <<clients, ledger, syncReplies, hookVars, dashVars,
                   backend, now, timeEntries, locationBreadcrumbs,
                   locationDepartures, events>>

\* await storage.getActiveTimeEntry(...); the arguments of createTimeEntry,
\* new Date() among them, are evaluated as the handler resumes.
ClockInGetActive(r) ==
    /\ req[r].pc = "ci_getActive"
    /\ CanRun(r)
    /\ IF getActiveTimeEntry(req[r].employeeId) # NoSuchId
       THEN Respond(r, "400 already clocked in")
       ELSE Await(r, [req[r] EXCEPT !.pc = "ci_create", !.t = now])
    /\ UNCHANGED <<clients, ledger, syncReplies, hookVars, dashVars,
                   backend, now, timeEntries, locationBreadcrumbs,
                   locationDepartures, events, budget>>

\* await storage.createTimeEntry(...); broadcast; res.status(201).
ClockInCreate(r) ==
    /\ req[r].pc = "ci_create"
    /\ CanRun(r)
    /\ timeEntries' = createTimeEntry(req[r].employeeId, req[r].t)
    /\ events' = broadcast(events, "CLOCK_IN", Len(timeEntries'))
    /\ clients' = deliver(clients, [type |-> "CLOCK_IN", id |-> Len(timeEntries')])
    /\ Respond(r, "201 clocked in")
    /\ UNCHANGED <<ledger, syncReplies, hookVars, dashVars,
                   backend, now, locationBreadcrumbs, locationDepartures, budget>>

(* ------------------------------ clock-out ----------------------------- *)

\* Milliseconds in a hundredth of an hour: 1000 * 60 * 60 / 100.
MsPerHundredth == 36000

\* The durations up to MaxHoursTime that are half a hundredth of an hour past
\* a hundredth, and whose quotient by 3600000, as the double the division
\* gives, is below the quotient itself: 54000 / 3600000 is the double
\* 0.01499999999999999944..., while 18000 / 3600000 is 0.00500000000000000010...
TiesBelow == {54000}

\* toFixed2Hours that cuts the duration down to whole hundredths.
toFixed2HoursTruncated(ms) == ms \div MsPerHundredth

\* ((out - in) / (1000 * 60 * 60)).toFixed(2), in hundredths of an hour.
\* toFixed gives the hundredth nearest to the double it is called on, and of
\* two that are as near the larger one; a duration that is not half a hundredth
\* past a hundredth is farther from the half than the division's error.
toFixed2Hours(ms) ==
    IF ms \in TiesBelow
    THEN ms \div MsPerHundredth
    ELSE (ms + MsPerHundredth \div 2) \div MsPerHundredth

\* POST /api/time-entries/:id/clock-out: schema.parse(req.body), then
\* clockOutTime = new Date(), before the entry is read.
ClockOutRequest(r, id, valid) ==
    /\ FreeSlot(r)
    /\ budget' = budget - 1
    /\ IF valid
       THEN Await(r, [Idle EXCEPT !.pc = "co_get", !.id = id, !.t = now])
       ELSE Respond(r, "400 invalid clock-out data")
    /\ UNCHANGED <<clients, ledger, syncReplies, hookVars, dashVars,
                   backend, now, timeEntries, locationBreadcrumbs,
                   locationDepartures, events>>

\* ClockOutGet without the return on timeEntry.clockOutTime.
ClockOutGetUnchecked(r) ==
    /\ req[r].pc = "co_get"
    /\ CanRun(r)
    /\ IF getTimeEntry(req[r].id) = NoSuchId
       THEN Respond(r, "404 time entry not found")
       ELSE Await(r, [req[r] EXCEPT
                        !.pc = "co_update",
                        !.hours = toFixed2Hours(
                            req[r].t - timeEntries[req[r].id].clockInTime)])
    /\ UNCHANGED <<clients, ledger, syncReplies, hookVars, dashVars,
                   backend, now, timeEntries, locationBreadcrumbs,
                   locationDepartures, events, budget>>

\* await storage.getTimeEntry(id); the 404 and 400 returns; totalHours.
ClockOutGet(r) ==
    /\ req[r].pc = "co_get"
    /\ CanRun(r)
    /\ IF getTimeEntry(req[r].id) = NoSuchId
       THEN Respond(r, "404 time entry not found")
       ELSE IF timeEntries[req[r].id].clockOutTime # Null
       THEN Respond(r, "400 already clocked out")
       ELSE Await(r, [req[r] EXCEPT
                        !.pc = "co_update",
                        !.hours = toFixed2Hours(
                            req[r].t - timeEntries[req[r].id].clockInTime)])
    /\ UNCHANGED <<clients, ledger, syncReplies, hookVars, dashVars,
                   backend, now, timeEntries, locationBreadcrumbs,
                   locationDepartures, events, budget>>

\* await storage.updateTimeEntry(id, {...}); broadcast; res.json.
ClockOutUpdate(r) ==
    /\ req[r].pc = "co_update"
    /\ CanRun(r)
    /\ timeEntries' = updateTimeEntry(req[r].id, req[r].t, req[r].hours)
    /\ events' = broadcast(events, "CLOCK_OUT", req[r].id)
    /\ clients' = deliver(clients, [type |-> "CLOCK_OUT", id |-> req[r].id])
    /\ Respond(r, "200 clocked out")
    /\ UNCHANGED <<ledger, syncReplies, hookVars, dashVars,
                   backend, now, locationBreadcrumbs, locationDepartures, budget>>

(* ---------------------------- breadcrumbs ----------------------------- *)

\* insertLocationBreadcrumbSchema: latitude and longitude are decimal
\* columns, which the insert schema takes as strings, whatever they spell.
IsString(x) == x.kind # "notstring"

\* parseFloat gives a finite number for a decimal string and NaN otherwise.
IsFinite(x) == x.kind = "num"

\* The order of two rows in a result sorted by timestamp: the first stays
\* ahead of the second (the sort is stable).
\*   MemStorage:     sort((a, b) => a.timestamp - b.timestamp)
\*   DrizzleStorage: orderBy(desc(timestamp))
StaysAhead(y, x) ==
    IF backend = "mem"
    THEN locationBreadcrumbs[y].timestamp <= locationBreadcrumbs[x].timestamp
    ELSE locationBreadcrumbs[y].timestamp >= locationBreadcrumbs[x].timestamp

\* The sort of the rows s by timestamp: row s[i] comes out behind the rows
\* that were ahead of it in s and stay ahead, and behind the rows that were
\* behind it in s and do not stay behind.
SortByTimestamp(s) ==
    LET Ahead(j, i) == IF j < i THEN StaysAhead(s[j], s[i])
                       ELSE ~StaysAhead(s[i], s[j])
        Rank(i) == 1 + Cardinality({ j \in DOMAIN s \ {i} : Ahead(j, i) })
    IN  [k \in DOMAIN s |-> s[CHOOSE i \in DOMAIN s : Rank(i) = k]]

\* The breadcrumbs of a time entry (their indices), as the storage returns them.
getBreadcrumbsByTimeEntry(timeEntryId) ==
    SortByTimestamp(
        SelectSeq([i \in 1..Len(locationBreadcrumbs) |-> i],
                  LAMBDA i : locationBreadcrumbs[i].timeEntryId = timeEntryId))

\* MemStorage stores whatever it is given.  The table of DrizzleStorage
\* declares time_entry_id as a reference to time_entries.id: the insert of a
\* row for an unknown time entry throws.
createBreadcrumbThrows(timeEntryId) ==
    backend = "drizzle" /\ timeEntryId \notin TimeEntryIds

\* The timestamp a new row of a table gets.  MemStorage: new Date(), in
\* milliseconds, so that two rows of one millisecond have the same timestamp.
\* DrizzleStorage: the column's default now(), whose resolution is finer than
\* the time between two inserts: a later row has a later timestamp, and the
\* number of rows before it stands for the part of it below one millisecond.
RowTimestamp(table) ==
    IF backend = "mem" THEN now ELSE now + Len(table)

createBreadcrumb(timeEntryId, latitude, longitude) ==
    Append(locationBreadcrumbs,
           [timeEntryId |-> timeEntryId,
            timestamp |-> RowTimestamp(locationBreadcrumbs),
            latitude |-> latitude, longitude |-> longitude])

createDeparture(timeEntryId, fromLocation, toLocation, distance) ==
    Append(locationDepartures,
           [timeEntryId |-> timeEntryId, fromLocation |-> fromLocation,
            toLocation |-> toLocation, distance |-> distance,
            timestamp |-> RowTimestamp(locationDepartures), synced |-> FALSE])

\* markDepartureSynced on a table that sets the flag to what it was not.
setSyncedFlipped(departures, id) ==
    IF id \in DOMAIN departures
    THEN [departures EXCEPT ![id].synced = ~@]
    ELSE departures

\* markDepartureSynced that stores the departure anew, with the time of the
\* mark as its timestamp.
setSyncedRestamped(departures, id) ==
    IF id \in DOMAIN departures
    THEN [departures EXCEPT ![id] = [@ EXCEPT !.synced = TRUE, !.timestamp = now]]
    ELSE departures

\* departure.synced = true / set({ synced: true }).where(eq(id, id)), on the
\* table departures: a departure that is not there is left alone.
setSynced(departures, id) ==
    IF id \in DOMAIN departures
    THEN [departures EXCEPT ![id].synced = TRUE]
    ELSE departures

\* markDepartureSynced that marks nothing.
markDepartureSyncedNoop(id) == locationDepartures

\* markDepartureSynced that sets the flag to what it was not.
markDepartureSyncedFlipped(id) == setSyncedFlipped(locationDepartures, id)

markDepartureSynced(id) == setSynced(locationDepartures, id)

Coords(b) == <<b.latitude, b.longitude>>

\* (lat2 - lat1)^2 + (lng2 - lng1)^2, in squared coordinate units.
DistSq(p, q) == (q[1].v - p[1].v) * (q[1].v - p[1].v)
                + (q[2].v - p[2].v) * (q[2].v - p[2].v)

\* distance > 100, where distance = Math.sqrt(...) * 111000.  A NaN among
\* the four numbers makes the distance NaN, and NaN > 100 is false.
DistanceExceeds(p, q) ==
    /\ IsFinite(p[1]) /\ IsFinite(p[2]) /\ IsFinite(q[1]) /\ IsFinite(q[2])
    /\ DistSq(p, q) > ThresholdUnits * ThresholdUnits

\* POST /api/time-entries/:timeEntryId/breadcrumbs: the schema's parse.
BreadcrumbRequest(r, timeEntryId, c) ==
    /\ FreeSlot(r)
    /\ budget' = budget - 1
    /\ IF IsString(c[1]) /\ IsString(c[2])
       THEN Await(r, [Idle EXCEPT !.pc = "bc_create", !.id = timeEntryId,
                                  !.lat = c[1], !.lng = c[2]])
       ELSE Respond(r, "400 invalid breadcrumb data")
    /\ UNCHANGED <<clients, ledger, syncReplies, hookVars, dashVars,
                   backend, now, timeEntries, locationBreadcrumbs,
                   locationDepartures, events>>

\* await storage.createBreadcrumb(validatedData)
BreadcrumbCreate(r) ==
    /\ req[r].pc = "bc_create"
    /\ CanRun(r)
    /\ IF createBreadcrumbThrows(req[r].id)
       THEN /\ Respond(r, "500 failed to create breadcrumb")
            /\ UNCHANGED locationBreadcrumbs
       ELSE /\ locationBreadcrumbs' =
                   createBreadcrumb(req[r].id, req[r].lat, req[r].lng)
            /\ Await(r, [req[r] EXCEPT !.pc = "bc_getAll",
                                       !.crumb = Len(locationBreadcrumbs')])
    /\ UNCHANGED <<clients, ledger, syncReplies, hookVars, dashVars,
                   backend, now, timeEntries, locationDepartures, events, budget>>

\* allBreadcrumbs[allBreadcrumbs.length - 2]
prevBreadcrumb(allBreadcrumbs) ==
    locationBreadcrumbs[allBreadcrumbs[Len(allBreadcrumbs) - 1]]

\* await storage.getBreadcrumbsByTimeEntry(...); the comparison of the
\* breadcrumb before the last with the breadcrumb just created.
BreadcrumbGetAll(r) ==
    /\ req[r].pc = "bc_getAll"
    /\ CanRun(r)
    /\ LET allBreadcrumbs == getBreadcrumbsByTimeEntry(req[r].id)
           prev == Coords(prevBreadcrumb(allBreadcrumbs))
           current == Coords(locationBreadcrumbs[req[r].crumb])
       IN  IF Len(allBreadcrumbs) > 1 /\ DistanceExceeds(prev, current)
           THEN /\ Await(r, [req[r] EXCEPT !.pc = "bc_createDeparture",
                                           !.from = prev,
                                           !.dist = DistSq(prev, current)])
                /\ UNCHANGED <<events, clients>>
           ELSE /\ events' = broadcast(events, "LOCATION_UPDATE", req[r].crumb)
                /\ clients' = deliver(clients, [type |-> "LOCATION_UPDATE",
                                                id |-> req[r].crumb])
                /\ Respond(r, "201 breadcrumb")
    /\ UNCHANGED <<ledger, syncReplies, hookVars, dashVars,
                   backend, now, timeEntries, locationBreadcrumbs,
                   locationDepartures, budget>>

\* await storage.createDeparture({...}); syncToGoogleSheets starts its timer.
BreadcrumbCreateDeparture(r) ==
    /\ req[r].pc = "bc_createDeparture"
    /\ CanRun(r)
    /\ locationDepartures' =
           createDeparture(req[r].id, req[r].from,
                           Coords(locationBreadcrumbs[req[r].crumb]), req[r].dist)
    /\ Await(r, [req[r] EXCEPT !.pc = "bc_sync",
                               !.dep = Len(locationDepartures'), !.t = now])
    /\ UNCHANGED <<clients, ledger, syncReplies, hookVars, dashVars,
                   backend, now, timeEntries, locationBreadcrumbs, events, budget>>

\* The insert of DrizzleStorage.createDeparture is a query sent to the
\* database, which may reject.  MemStorage.createDeparture writes a Map and
\* never throws.
createDepartureMayThrow == backend = "drizzle"

\* storage.createDeparture(...) throws: the catch of the route answers 500.
\* The breadcrumb that was inserted stays: no transaction is around the two
\* inserts.
BreadcrumbCreateDepartureThrows(r) ==
    /\ req[r].pc = "bc_createDeparture"
    /\ CanRun(r)
    /\ createDepartureMayThrow
    /\ Respond(r, "500 failed to create breadcrumb")
    /\ UNCHANGED <<clients, ledger, syncReplies, hookVars, dashVars,
                   backend, now, timeEntries, locationBreadcrumbs,
                   locationDepartures, events, budget>>

\* syncToGoogleSheets(departure): the departure is sent out (the placeholder
\* logs it) and, when the timer has fired, { success: true } is returned.
\* Nothing in it looks at what was sent before, and nothing in it throws.
syncToGoogleSheets(departure) == ledger (+) SetToBag({departure})

\* await syncToGoogleSheets(departure): the timer fires, { success: true }.
BreadcrumbSync(r) ==
    /\ req[r].pc = "bc_sync"
    /\ CanRun(r)
    /\ now >= req[r].t + SyncDelayMs
    /\ ledger' = syncToGoogleSheets(req[r].dep)
    /\ Await(r, [req[r] EXCEPT !.pc = "bc_mark"])
    /\ UNCHANGED <<clients, syncReplies, hookVars, dashVars,
                   backend, now, timeEntries, locationBreadcrumbs,
                   locationDepartures, events, budget>>

\* await storage.markDepartureSynced(departure.id); the two broadcasts.
BreadcrumbMark(r) ==
    /\ req[r].pc = "bc_mark"
    /\ CanRun(r)
    /\ locationDepartures' = markDepartureSynced(req[r].dep)
    /\ events' = broadcast(broadcast(events, "LOCATION_DEPARTURE", req[r].dep),
                           "LOCATION_UPDATE", req[r].crumb)
    /\ clients' = deliver(deliver(clients, [type |-> "LOCATION_DEPARTURE",
                                             id |-> req[r].dep]),
                           [type |-> "LOCATION_UPDATE", id |-> req[r].crumb])
    /\ Respond(r, "201 breadcrumb")
    /\ UNCHANGED <<ledger, syncReplies, hookVars, dashVars,
                   backend, now, timeEntries, locationBreadcrumbs, budget>>

\* The update of DrizzleStorage.markDepartureSynced is a query sent to the
\* database, which may reject (the connection is lost, the statement times
\* out).  MemStorage.markDepartureSynced writes a Map and never throws.
markDepartureSyncedMayThrow == backend = "drizzle"

\* The handler without the try around the sync: the throw reaches the catch
\* of the route.
BreadcrumbMarkThrowsFatal(r) ==
    /\ req[r].pc = "bc_mark"
    /\ CanRun(r)
    /\ markDepartureSyncedMayThrow
    /\ Respond(r, "500 failed to create breadcrumb")
    /\ UNCHANGED <<clients, ledger, syncReplies, hookVars, dashVars,
                   backend, now, timeEntries, locationBreadcrumbs,
                   locationDepartures, events, budget>>

\* The handler with the broadcast of the departure inside the try block,
\* after the mark: a throw of the mark skips it.
BreadcrumbMarkThrowsSilent(r) ==
    /\ req[r].pc = "bc_mark"
    /\ CanRun(r)
    /\ markDepartureSyncedMayThrow
    /\ events' = broadcast(events, "LOCATION_UPDATE", req[r].crumb)
    /\ clients' = deliver(clients, [type |-> "LOCATION_UPDATE", id |-> req[r].crumb])
    /\ Respond(r, "201 breadcrumb")
    /\ UNCHANGED <<ledger, syncReplies, hookVars, dashVars,
                   backend, now, timeEntries, locationBreadcrumbs,
                   locationDepartures, budget>>

\* storage.markDepartureSynced(departure.id) throws: the catch of the
\* handler logs the error, and the handler goes on to its two broadcasts.
BreadcrumbMarkThrows(r) ==
    /\ req[r].pc = "bc_mark"
    /\ CanRun(r)
    /\ markDepartureSyncedMayThrow
    /\ events' = broadcast(broadcast(events, "LOCATION_DEPARTURE", req[r].dep),
                           "LOCATION_UPDATE", req[r].crumb)
    /\ clients' = deliver(deliver(clients, [type |-> "LOCATION_DEPARTURE",
                                             id |-> req[r].dep]),
                           [type |-> "LOCATION_UPDATE", id |-> req[r].crumb])
    /\ Respond(r, "201 breadcrumb")
    /\ UNCHANGED <<ledger, syncReplies, hookVars, dashVars,
                   backend, now, timeEntries, locationBreadcrumbs,
                   locationDepartures, budget>>

(* ----------------------------- bulk sync ------------------------------ *)

UnsyncedIds == { d \in DOMAIN locationDepartures : ~locationDepartures[d].synced }

\* The sequences without repetition of the elements of S.
Orderings(S) ==
    { s \in [1..Cardinality(S) -> S] : \A i, j \in DOMAIN s : s[i] = s[j] => i = j }

\* The results getUnsyncedDepartures may give (ids of departures).
\*   MemStorage:     the values of the Map, filtered: the order of insertion.
\*   DrizzleStorage: a select with a where and no order by, for which the
\*                   database promises no order of the rows.
getUnsyncedDepartures ==
    IF backend = "mem"
    THEN { SelectSeq([i \in 1..Len(locationDepartures) |-> i],
                     LAMBDA i : ~locationDepartures[i].synced) }
    ELSE Orderings(UnsyncedIds)

\* results.filter(r => r.success).length and results.filter(r => !r.success).length
CountResults(results, success) ==
    Cardinality({ i \in DOMAIN results : results[i].success = success })

\* broadcast({ type: 'SYNC_COMPLETE', results })
SyncComplete(results) == [type |-> "SYNC_COMPLETE", results |-> results]

\* The body POST /api/sync-departures answers with.
SyncReply(results) ==
    [synced |-> CountResults(results, TRUE), failed |-> CountResults(results, FALSE)]

\* The head of the for loop of POST /api/sync-departures: the next departure
\* is handed to syncToGoogleSheets, or the loop is over, the results are
\* broadcast and the counts are the response.
SyncLoop(r, unsynced, results) ==
    IF Len(results) < Len(unsynced)
    THEN /\ req' = [req EXCEPT ![r] = [req[r] EXCEPT !.pc = "bs_sync",
                                                      !.unsynced = unsynced,
                                                      !.results = results,
                                                      !.t = now]]
         /\ UNCHANGED <<events, syncReplies, clients>>
    ELSE /\ req' = [req EXCEPT ![r] = Idle]
         /\ events' = events (+) SetToBag({SyncComplete(results)})
         /\ clients' = deliver(clients, SyncComplete(results))
         /\ syncReplies' = syncReplies (+) SetToBag({SyncReply(results)})

\* POST /api/sync-departures
SyncRequest(r) ==
    /\ FreeSlot(r)
    /\ budget' = budget - 1
    /\ Await(r, [Idle EXCEPT !.pc = "bs_get"])
    /\ UNCHANGED <<clients, ledger, syncReplies, hookVars, dashVars,
                   backend, now, timeEntries, locationBreadcrumbs,
                   locationDepartures, events>>

\* await storage.getUnsyncedDepartures(); const results = []
SyncGetUnsynced(r) ==
    /\ req[r].pc = "bs_get"
    /\ CanRun(r)
    /\ \E unsynced \in getUnsyncedDepartures : SyncLoop(r, unsynced, <<>>)
    /\ UNCHANGED <<ledger, hookVars, dashVars,
                   backend, now, timeEntries, locationBreadcrumbs,
                   locationDepartures, responses, budget>>

\* The departure the loop is at.
SyncCurrent(r) == req[r].unsynced[Len(req[r].results) + 1]

\* await syncToGoogleSheets(departure): the timer fires, { success: true }.
SyncPublish(r) ==
    /\ req[r].pc = "bs_sync"
    /\ CanRun(r)
    /\ now >= req[r].t + SyncDelayMs
    /\ ledger' = syncToGoogleSheets(SyncCurrent(r))
    /\ Await(r, [req[r] EXCEPT !.pc = "bs_mark"])
    /\ UNCHANGED <<clients, syncReplies, hookVars, dashVars,
                   backend, now, timeEntries, locationBreadcrumbs,
                   locationDepartures, events, budget>>

\* await storage.markDepartureSynced(departure.id);
\* results.push({ id: departure.id, success: true })
SyncMark(r) ==
    /\ req[r].pc = "bs_mark"
    /\ CanRun(r)
    /\ locationDepartures' = markDepartureSynced(SyncCurrent(r))
    /\ SyncLoop(r, req[r].unsynced,
                Append(req[r].results, [id |-> SyncCurrent(r), success |-> TRUE]))
    /\ UNCHANGED <<ledger, hookVars, dashVars,
                   backend, now, timeEntries, locationBreadcrumbs,
                   responses, budget>>

\* The loop without the try around the sync of one departure: the throw
\* reaches the catch of the route, which answers 500 and broadcasts nothing.
SyncMarkThrowsAbort(r) ==
    /\ req[r].pc = "bs_mark"
    /\ CanRun(r)
    /\ markDepartureSyncedMayThrow
    /\ Respond(r, "500 failed to sync departures")
    /\ UNCHANGED <<clients, ledger, syncReplies, hookVars, dashVars,
                   backend, now, timeEntries, locationBreadcrumbs,
                   locationDepartures, events, budget>>

\* storage.markDepartureSynced(departure.id) throws:
\* results.push({ id: departure.id, success: false, error: error.message })
SyncMarkThrows(r) ==
    /\ req[r].pc = "bs_mark"
    /\ CanRun(r)
    /\ markDepartureSyncedMayThrow
    /\ SyncLoop(r, req[r].unsynced,
                Append(req[r].results, [id |-> SyncCurrent(r), success |-> FALSE,
                                        error |-> "update failed"]))
    /\ UNCHANGED <<ledger, hookVars, dashVars,
                   backend, now, timeEntries, locationBreadcrumbs,
                   locationDepartures, responses, budget>>

(* ----------------------------- useWebSocket --------------------------- *)

\* reconnectAttempts = 5, the default of the option.
ReconnectAttempts == 5

\* The hook before its effect has run: no socket, no timer.
Unmounted ==
    /\ sockets = <<>>
    /\ wsRef = Null
    /\ isConnected = FALSE
    /\ timers = <<>>
    /\ reconnectTimeoutRef = Null
    /\ reconnectAttemptsRef = 0
    /\ scheduled = 0
    /\ disconnected = FALSE

\* new WebSocket(wsUrl): a socket whose readyState is CONNECTING.  opened
\* tells whether the connection has been established, and wasClean is that of
\* the close event of the socket, once it has had it.
newWebSocket ==
    Append(sockets, [readyState |-> "CONNECTING", opened |-> FALSE,
                     wasClean |-> FALSE])

\* connect(): const ws = new WebSocket(wsUrl); wsRef.current = ws; and the
\* handlers of ws are set.
connect ==
    /\ Len(sockets) < MaxSockets
    /\ sockets' = newWebSocket
    /\ wsRef' = Len(sockets')

\* The sockets made by connect() as the component called it: all but those
\* made by a timer.
Called == Len(sockets) - Cardinality({ t \in DOMAIN timers : timers[t] = "fired" })

\* connect() called by the effect of the hook or by the component.
CallConnect ==
    /\ Called < MaxCalls
    /\ connect
    /\ disconnected' = FALSE
    /\ UNCHANGED <<isConnected, timers, reconnectTimeoutRef, reconnectAttemptsRef,
                   scheduled>>
    /\ UNCHANGED <<serverVars, dashVars>>

\* The callback of setTimeout: connect().
TimerFires(t) ==
    /\ timers[t] = "pending"
    /\ timers' = [timers EXCEPT ![t] = "fired"]
    /\ connect
    /\ UNCHANGED <<isConnected, reconnectTimeoutRef, reconnectAttemptsRef,
                   scheduled, disconnected>>
    /\ UNCHANGED <<serverVars, dashVars>>

\* ws.onopen of socket s.
onopen(s) ==
    /\ sockets[s].readyState = "CONNECTING"
    /\ sockets' = [sockets EXCEPT ![s].readyState = "OPEN", ![s].opened = TRUE]
    /\ isConnected' = TRUE
    /\ reconnectAttemptsRef' = 0
    /\ scheduled' = 0
    /\ UNCHANGED <<wsRef, timers, reconnectTimeoutRef, disconnected>>
    /\ UNCHANGED <<serverVars, dashVars>>

\* onclose whose test of the attempts made lets one more through.
oncloseOneMore(s, wasClean) ==
    /\ sockets[s].readyState # "CLOSED"
    /\ wasClean => sockets[s].opened
    /\ sockets' = [sockets EXCEPT ![s].readyState = "CLOSED",
                                  ![s].wasClean = wasClean]
    /\ isConnected' = FALSE
    /\ wsRef' = Null
    /\ IF ~wasClean /\ reconnectAttemptsRef <= ReconnectAttempts
       THEN /\ reconnectAttemptsRef' = reconnectAttemptsRef + 1
            /\ scheduled' = scheduled + 1
            /\ timers' = Append(timers, "pending")
            /\ reconnectTimeoutRef' = Len(timers')
       ELSE UNCHANGED <<reconnectAttemptsRef, scheduled, timers, reconnectTimeoutRef>>
    /\ UNCHANGED disconnected
    /\ UNCHANGED <<serverVars, dashVars>>

\* ws.onclose of socket s.  The close event of a connection that was never
\* established, or that was lost, has wasClean false; the one that ends the
\* closing handshake has wasClean true.
onclose(s, wasClean) ==
    /\ sockets[s].readyState # "CLOSED"
    /\ wasClean => sockets[s].opened
    /\ sockets' = [sockets EXCEPT ![s].readyState = "CLOSED",
                                  ![s].wasClean = wasClean]
    /\ isConnected' = FALSE
    /\ wsRef' = Null
    /\ IF ~wasClean /\ reconnectAttemptsRef < ReconnectAttempts
       THEN /\ reconnectAttemptsRef' = reconnectAttemptsRef + 1
            /\ scheduled' = scheduled + 1
            /\ timers' = Append(timers, "pending")
            /\ reconnectTimeoutRef' = Len(timers')
       ELSE UNCHANGED <<reconnectAttemptsRef, scheduled, timers, reconnectTimeoutRef>>
    /\ UNCHANGED disconnected
    /\ UNCHANGED <<serverVars, dashVars>>

\* clearTimeout(id): a timer that has not fired will not fire.
clearTimeout(id) ==
    IF timers[id] = "pending" THEN [timers EXCEPT ![id] = "cleared"] ELSE timers

\* ws.close(1000, ...): a socket that is CONNECTING or OPEN is CLOSING.
close(s) ==
    IF sockets[s].readyState \in {"CONNECTING", "OPEN"}
    THEN [sockets EXCEPT ![s].readyState = "CLOSING"]
    ELSE sockets

\* disconnect(), called by the cleanup of the effect or by the component.
disconnect ==
    /\ timers' = IF reconnectTimeoutRef # Null
                 THEN clearTimeout(reconnectTimeoutRef) ELSE timers
    /\ reconnectTimeoutRef' = Null
    /\ sockets' = IF wsRef # Null THEN close(wsRef) ELSE sockets
    /\ wsRef' = Null
    /\ isConnected' = FALSE
    /\ disconnected' = TRUE
    /\ UNCHANGED <<reconnectAttemptsRef, scheduled>>
    /\ UNCHANGED <<serverVars, dashVars>>

(* ------------------------------ Dashboard ----------------------------- *)

\* latitude and longitude are null: no position has been reported.
NoPosition == <<>>

\* The component before its queries have given anything.
NoDashboard ==
    /\ activeTimeEntry = NoSuchId
    /\ geolocation = NoPosition
    /\ currentLocation = NoPosition
    /\ breadcrumbs = <<>>
    /\ sentAt = <<>>

\* Throttle of the breadcrumb effect and refetchInterval of the breadcrumbs
\* query, in milliseconds.
ThrottleMs == 120000
RefetchIntervalMs == 30000

\* The positions the watch of useGeolocation reports: two places 111 m apart.
\* Neither has a coordinate 0, which the test latitude && longitude refuses.
Positions == { <<Num(2220), Num(2220)>>, <<Num(4440), Num(2220)>> }

\* activeTimeEntry && latitude && longitude
CanReport(position) ==
    /\ activeTimeEntry # NoSuchId
    /\ position # NoPosition
    /\ position[1].v # 0 /\ position[2].v # 0

\* The test of the effect: no breadcrumb is known, or the last one of the
\* list is more than 2 minutes old.
ThrottlePasses(position, data) ==
    /\ CanReport(position)
    /\ data = <<>> \/ now - data[Len(data)] > ThrottleMs

\* breadcrumbMutation.mutate({...}): the POST for the session, as sent.
Post(position) ==
    [at |-> now, timeEntryId |-> activeTimeEntry, coords |-> position]

\* What one run of the effect adds to the requests sent.
EffectRun(position, data) ==
    IF ThrottlePasses(position, data) THEN <<Post(position)>> ELSE <<>>

\* updatePosition of useGeolocation, with a position that differs from the
\* last: the component renders and the breadcrumb effect runs; the geocoding
\* effect makes currentLocation from the new position, which is a dependency
\* of the breadcrumb effect, so that the component renders and the breadcrumb
\* effect runs once more.  Every request sent is one more for the server.
updatePosition(position) ==
    /\ activeTimeEntry # NoSuchId
    /\ geolocation # position
    /\ geolocation' = position
    /\ currentLocation' = position
    /\ LET first == EffectRun(position, breadcrumbs)
           second == IF currentLocation # position
                     THEN EffectRun(position, breadcrumbs) ELSE <<>>
       IN  /\ Len(sentAt) + Len(first) + Len(second) <= MaxPosts
           /\ sentAt' = sentAt \o first \o second
           /\ budget' = budget + Len(first) + Len(second)
    /\ UNCHANGED <<activeTimeEntry, breadcrumbs>>
    /\ UNCHANGED <<backend, now, timeEntries, locationBreadcrumbs, locationDepartures,
                   events, responses, req, ledger, syncReplies, clients>>
    /\ UNCHANGED hookVars

\* GET /api/time-entries/:timeEntryId/breadcrumbs: the timestamps of what
\* storage.getBreadcrumbsByTimeEntry returns, in its order.
fetchBreadcrumbs(timeEntryId) ==
    LET rows == getBreadcrumbsByTimeEntry(timeEntryId)
    IN  [k \in DOMAIN rows |-> locationBreadcrumbs[rows[k]].timestamp]

\* The breadcrumbs query refetches, every 30 seconds and whenever the window
\* gets the focus; when the data differ from those it has, the component
\* renders and the breadcrumb effect runs.
refetch ==
    /\ activeTimeEntry # NoSuchId
    /\ LET data == fetchBreadcrumbs(activeTimeEntry)
           run == EffectRun(geolocation, data)
       IN  /\ data # breadcrumbs
           /\ breadcrumbs' = data
           /\ Len(sentAt) + Len(run) <= MaxPosts
           /\ sentAt' = sentAt \o run
           /\ budget' = budget + Len(run)
    /\ UNCHANGED <<activeTimeEntry, geolocation, currentLocation>>
    /\ UNCHANGED <<backend, now, timeEntries, locationBreadcrumbs, locationDepartures,
                   events, responses, req, ledger, syncReplies, clients>>
    /\ UNCHANGED hookVars

\* The request of the dashboard that reaches the server next.
NextPost == sentAt[Len(sentAt) - budget + 1]

(* ------------------------------- clock -------------------------------- *)

Tick ==
    /\ \E d \in TickSteps : now + d <= MaxTime /\ now' = now + d
    /\ UNCHANGED <<clients, ledger, syncReplies, hookVars, dashVars,
                   backend, timeEntries, locationBreadcrumbs,
                   locationDepartures, events, responses, req, budget>>

(* --------------------------- specification ---------------------------- *)

Init ==
    /\ backend \in {"mem", "drizzle"}
    /\ now = 0
    /\ timeEntries = <<>>
    /\ locationBreadcrumbs = <<>>
    /\ locationDepartures = <<>>
    /\ events = EmptyBag
    /\ responses = EmptyBag
    /\ req = [r \in Reqs |-> Idle]
    /\ budget = MaxOps
    /\ ledger = EmptyBag
    /\ syncReplies = EmptyBag
    /\ clients = [c \in Listeners |-> Absent]
    /\ Unmounted
    /\ NoDashboard

\* The ids a client sends: the entries it was given, and one that is none.
KnownIds == TimeEntryIds \cup {NoSuchId}

\* The steps of the handlers that run in the slots R, and of the clock.
Step(R) ==
    \/ \E r \in R, e \in Employees, valid \in BOOLEAN : ClockInRequest(r, e, valid)
    \/ \E r \in R : ClockInGetActive(r)
    \/ \E r \in R : ClockInCreate(r)
    \/ \E r \in R, id \in KnownIds, valid \in BOOLEAN : ClockOutRequest(r, id, valid)
    \/ \E r \in R : ClockOutGet(r)
    \/ \E r \in R : ClockOutUpdate(r)
    \/ \E r \in R, id \in KnownIds, c \in CoordInputs : BreadcrumbRequest(r, id, c)
    \/ \E r \in R : BreadcrumbCreate(r)
    \/ \E r \in R : BreadcrumbGetAll(r)
    \/ \E r \in R : BreadcrumbCreateDeparture(r)
    \/ \E r \in R : BreadcrumbSync(r)
    \/ \E r \in R : BreadcrumbMark(r)
    \/ Tick

Next == Step(Reqs)

Spec == Init /\ [][Next]_vars

\* The clients send one request at a time: each waits for the response to
\* its last request before it sends the next.
InitSeq ==
    /\ backend \in {"mem", "drizzle"}
    /\ now = 0
    /\ timeEntries = <<>>
    /\ locationBreadcrumbs = <<>>
    /\ locationDepartures = <<>>
    /\ events = EmptyBag
    /\ responses = EmptyBag
    /\ req = [r \in Reqs |-> Idle]
    /\ budget = MaxSeqOps
    /\ ledger = EmptyBag
    /\ syncReplies = EmptyBag
    /\ clients = [c \in Listeners |-> Absent]
    /\ Unmounted
    /\ NoDashboard

NextSeq == Step({1})

SpecSeq == InitSeq /\ [][NextSeq]_vars

\* Time passes while a timer of syncToGoogleSheets is running, till it
\* runs out.  (Time that passes while no timer is running moves every later
\* timestamp alike, and changes the order of no two of them.)
TimerTick ==
    /\ now + SyncDelayMs <= MaxSyncTime
    /\ \E r \in Reqs : /\ req[r].pc \in {"bc_sync", "bs_sync"}
                        /\ now < req[r].t + SyncDelayMs
    /\ now' = now + SyncDelayMs
    /\ UNCHANGED <<clients, ledger, syncReplies, hookVars, dashVars,
                   backend, timeEntries, locationBreadcrumbs,
                   locationDepartures, events, responses, req, budget>>

\* The state after the clock-in of worker e1 at time 0.
InitSync ==
    /\ backend \in {"mem", "drizzle"}
    /\ now = 0
    /\ timeEntries = <<[employeeId |-> "e1", clockInTime |-> 0,
                        clockOutTime |-> Null, totalHours |-> Null,
                        isActive |-> TRUE]>>
    /\ locationBreadcrumbs = <<>>
    /\ locationDepartures = <<>>
    /\ events = SetToBag({[type |-> "CLOCK_IN", id |-> 1]})
    /\ responses = SetToBag({"201 clocked in"})
    /\ req = [r \in Reqs |-> Idle]
    /\ budget = MaxSyncOps
    /\ ledger = EmptyBag
    /\ syncReplies = EmptyBag
    /\ clients = [c \in Listeners |-> Absent]
    /\ Unmounted
    /\ NoDashboard

\* The reports of one worker who walks between two places 111 m apart.
SyncCoordInputs == { <<Num(0), Num(0)>>, <<Num(2220), Num(0)>> }

\* The worker reports breadcrumbs and clocks out; the dashboard asks for
\* bulk syncs; the database may reject the update of a departure.
NextSync ==
    \/ \E r \in Reqs, id \in TimeEntryIds : ClockOutRequest(r, id, TRUE)
    \/ \E r \in Reqs : ClockOutGet(r)
    \/ \E r \in Reqs : ClockOutUpdate(r)
    \/ \E r \in Reqs, id \in TimeEntryIds, c \in SyncCoordInputs :
           BreadcrumbRequest(r, id, c)
    \/ \E r \in Reqs : BreadcrumbCreate(r)
    \/ \E r \in Reqs : BreadcrumbGetAll(r)
    \/ \E r \in Reqs : BreadcrumbCreateDeparture(r)
    \/ \E r \in Reqs : BreadcrumbSync(r)
    \/ \E r \in Reqs : BreadcrumbMark(r)
    \/ \E r \in Reqs : BreadcrumbMarkThrows(r)
    \/ \E r \in Reqs : SyncRequest(r)
    \/ \E r \in Reqs : SyncGetUnsynced(r)
    \/ \E r \in Reqs : SyncPublish(r)
    \/ \E r \in Reqs : SyncMark(r)
    \/ \E r \in Reqs : SyncMarkThrows(r)
    \/ TimerTick

SpecSync == InitSync /\ [][NextSync]_vars

\* The timers MaxSyncOps requests start at most, one after the other: a
\* report that creates a departure starts one, and a bulk sync one for every
\* departure; the first departure takes two reports and every other one more.
MaxTimers == (MaxSyncOps \div 2) * ((MaxSyncOps + 1) \div 2)

\* TimerTick with room for every timer the requests of a behaviour start.
LiveTimerTick ==
    /\ now + SyncDelayMs <= MaxTimers * SyncDelayMs
    /\ \E r \in Reqs : /\ req[r].pc \in {"bc_sync", "bs_sync"}
                        /\ now < req[r].t + SyncDelayMs
    /\ now' = now + SyncDelayMs
    /\ UNCHANGED <<clients, ledger, syncReplies, hookVars, dashVars,
                   backend, timeEntries, locationBreadcrumbs,
                   locationDepartures, events, responses, req, budget>>

\* The next step of the handler in slot r, whatever its outcome.
HandlerStep(r) ==
    \/ BreadcrumbCreate(r)
    \/ BreadcrumbGetAll(r)
    \/ BreadcrumbCreateDeparture(r)
    \/ BreadcrumbSync(r)
    \/ BreadcrumbMark(r)
    \/ BreadcrumbMarkThrows(r)
    \/ SyncGetUnsynced(r)
    \/ SyncPublish(r)
    \/ SyncMark(r)
    \/ SyncMarkThrows(r)

\* The worker reports breadcrumbs and the dashboard asks for bulk syncs.
NextLive ==
    \/ \E r \in Reqs, id \in TimeEntryIds, c \in SyncCoordInputs :
           BreadcrumbRequest(r, id, c)
    \/ \E r \in Reqs : SyncRequest(r)
    \/ \E r \in Reqs : HandlerStep(r)
    \/ LiveTimerTick

\* The event loop runs every continuation that is ready, and every timer
\* that was set fires.
SpecLive ==
    /\ InitSync
    /\ [][NextLive]_vars
    /\ \A r \in Reqs : WF_vars(HandlerStep(r))
    /\ WF_vars(LiveTimerTick)

\* A report whose longitude is no string, which the schema refuses.
BadCoordInputs == { <<Num(0), NotAString>> }

\* NextSync, with a database that may reject the insert of a departure too,
\* and with reports that are refused: a body the schema does not take, and a
\* session that does not exist.
NextAtomic ==
    \/ NextSync
    \/ \E r \in Reqs : BreadcrumbCreateDepartureThrows(r)
    \/ \E r \in Reqs, id \in TimeEntryIds, c \in BadCoordInputs :
           BreadcrumbRequest(r, id, c)
    \/ \E r \in Reqs, c \in SyncCoordInputs : BreadcrumbRequest(r, NoSuchId, c)

SpecAtomic == InitSync /\ [][NextAtomic]_vars

(* ------------------------------ listeners ----------------------------- *)

\* wss.on('connection'): the listener's new socket is in wss.clients, open,
\* with nothing in its buffer.
Connect(c) ==
    /\ clients[c].readyState = "absent"
    /\ clients' = [clients EXCEPT ![c].readyState = "open"]
    /\ UNCHANGED <<ledger, syncReplies, hookVars, dashVars,
                   backend, now, timeEntries, locationBreadcrumbs,
                   locationDepartures, events, responses, req, budget>>

\* The socket writes out what is in its buffer, and it comes to the listener.
Flush(c) ==
    /\ clients[c].readyState = "open"
    /\ ~clients[c].broken
    /\ clients[c].buffered # EmptyBag
    /\ clients' = [clients EXCEPT ![c].received = @ (+) clients[c].buffered,
                                  ![c].buffered = EmptyBag]
    /\ UNCHANGED <<ledger, syncReplies, hookVars, dashVars,
                   backend, now, timeEntries, locationBreadcrumbs,
                   locationDepartures, events, responses, req, budget>>

\* The listener stops reading, or the network is gone: the socket takes data
\* in its buffer and writes none out, and its readyState is OPEN until the
\* server learns of it.
Break(c) ==
    /\ clients[c].readyState = "open"
    /\ ~clients[c].broken
    /\ clients' = [clients EXCEPT ![c].broken = TRUE]
    /\ UNCHANGED <<ledger, syncReplies, hookVars, dashVars,
                   backend, now, timeEntries, locationBreadcrumbs,
                   locationDepartures, events, responses, req, budget>>

\* The closing handshake has begun: the socket is in wss.clients and its
\* readyState is CLOSING.
CloseStart(c) ==
    /\ clients[c].readyState = "open"
    /\ clients' = [clients EXCEPT ![c].readyState = "closing"]
    /\ UNCHANGED <<ledger, syncReplies, hookVars, dashVars,
                   backend, now, timeEntries, locationBreadcrumbs,
                   locationDepartures, events, responses, req, budget>>

\* ws.on('close'): the socket leaves wss.clients, and what was in its buffer
\* is lost.
Close(c) ==
    /\ clients[c].readyState \in {"open", "closing"}
    /\ clients' = [clients EXCEPT ![c] = [Absent EXCEPT !.received = clients[c].received]]
    /\ UNCHANGED <<ledger, syncReplies, hookVars, dashVars,
                   backend, now, timeEntries, locationBreadcrumbs,
                   locationDepartures, events, responses, req, budget>>

\* The state after the clock-in of worker e1 and its first two breadcrumbs,
\* both at (0, 0), with no listener connected so far.
InitCast ==
    /\ backend \in {"mem", "drizzle"}
    /\ now = 0
    /\ timeEntries = <<[employeeId |-> "e1", clockInTime |-> 0,
                        clockOutTime |-> Null, totalHours |-> Null,
                        isActive |-> TRUE]>>
    /\ locationBreadcrumbs =
           <<[timeEntryId |-> 1, timestamp |-> 0,
              latitude |-> Num(0), longitude |-> Num(0)],
             [timeEntryId |-> 1, timestamp |-> IF backend = "mem" THEN 0 ELSE 1,
              latitude |-> Num(0), longitude |-> Num(0)]>>
    /\ locationDepartures = <<>>
    /\ events = SetToBag({[type |-> "CLOCK_IN", id |-> 1],
                          [type |-> "LOCATION_UPDATE", id |-> 1],
                          [type |-> "LOCATION_UPDATE", id |-> 2]})
    /\ responses = SetToBag({"201 clocked in"})
                       (+) [c \in {"201 breadcrumb"} |-> 2]
    /\ req = [r \in Reqs |-> Idle]
    /\ budget = MaxCastOps
    /\ ledger = EmptyBag
    /\ syncReplies = EmptyBag
    /\ clients = [c \in Listeners |-> Absent]
    /\ Unmounted
    /\ NoDashboard

\* The requests of the workers and of the dashboard, while the dashboards
\* connect to /ws and leave it.
NextCast ==
    \/ \E r \in Reqs : ClockInRequest(r, "e2", TRUE)
    \/ \E r \in Reqs : ClockInGetActive(r)
    \/ \E r \in Reqs : ClockInCreate(r)
    \/ \E r \in Reqs : ClockOutRequest(r, 1, TRUE)
    \/ \E r \in Reqs : ClockOutGet(r)
    \/ \E r \in Reqs : ClockOutUpdate(r)
    \/ \E r \in Reqs, c \in SyncCoordInputs : BreadcrumbRequest(r, 1, c)
    \/ \E r \in Reqs : HandlerStep(r)
    \/ \E r \in Reqs : SyncRequest(r)
    \/ TimerTick
    \/ \E c \in Listeners : Connect(c)
    \/ \E c \in Listeners : Flush(c)
    \/ \E c \in Listeners : Break(c)
    \/ \E c \in Listeners : CloseStart(c)
    \/ \E c \in Listeners : Close(c)

SpecCast == InitCast /\ [][NextCast]_vars

(* -------------------------------- hours ------------------------------- *)

\* The times that pass between two steps of a worker's day: half a hundredth
\* of an hour, and a millisecond less.
HoursSteps == {MsPerHundredth \div 2, MsPerHundredth \div 2 - 1}

HoursTick ==
    /\ \E d \in HoursSteps : now + d <= MaxHoursTime /\ now' = now + d
    /\ UNCHANGED <<clients, ledger, syncReplies, hookVars, dashVars,
                   backend, timeEntries, locationBreadcrumbs,
                   locationDepartures, events, responses, req, budget>>

\* The state after the clock-in of worker e1 at time 0.
InitHours ==
    /\ backend \in {"mem", "drizzle"}
    /\ now = 0
    /\ timeEntries = <<[employeeId |-> "e1", clockInTime |-> 0,
                        clockOutTime |-> Null, totalHours |-> Null,
                        isActive |-> TRUE]>>
    /\ locationBreadcrumbs = <<>>
    /\ locationDepartures = <<>>
    /\ events = SetToBag({[type |-> "CLOCK_IN", id |-> 1]})
    /\ responses = SetToBag({"201 clocked in"})
    /\ req = [r \in Reqs |-> Idle]
    /\ budget = MaxOps
    /\ ledger = EmptyBag
    /\ syncReplies = EmptyBag
    /\ clients = [c \in Listeners |-> Absent]
    /\ Unmounted
    /\ NoDashboard

\* The worker clocks out, at any time of the day.
NextHours ==
    \/ \E r \in Reqs, id \in TimeEntryIds : ClockOutRequest(r, id, TRUE)
    \/ \E r \in Reqs : ClockOutGet(r)
    \/ \E r \in Reqs : ClockOutUpdate(r)
    \/ HoursTick

SpecHours == InitHours /\ [][NextHours]_vars

(* ------------------------- useWebSocket, alone ------------------------ *)

\* The server at rest, no request on its way, and the hook not yet mounted.
InitHook ==
    /\ backend \in {"mem", "drizzle"}
    /\ now = 0
    /\ timeEntries = <<>>
    /\ locationBreadcrumbs = <<>>
    /\ locationDepartures = <<>>
    /\ events = EmptyBag
    /\ responses = EmptyBag
    /\ req = [r \in Reqs |-> Idle]
    /\ budget = 0
    /\ ledger = EmptyBag
    /\ syncReplies = EmptyBag
    /\ clients = [c \in Listeners |-> Absent]
    /\ Unmounted
    /\ NoDashboard

\* The component calls connect() and disconnect(), the browser delivers the
\* events of the sockets, and the timers fire.
NextHook ==
    \/ CallConnect
    \/ disconnect
    \/ \E t \in DOMAIN timers : TimerFires(t)
    \/ \E s \in DOMAIN sockets : onopen(s)
    \/ \E s \in DOMAIN sockets, wasClean \in BOOLEAN : onclose(s, wasClean)

SpecHook == InitHook /\ [][NextHook]_vars

(* --------------------------- Dashboard, alone ------------------------- *)

\* Time passes, a refetchInterval at a time.
DashTick ==
    /\ now + RefetchIntervalMs <= MaxDashTime
    /\ now' = now + RefetchIntervalMs
    /\ UNCHANGED <<backend, timeEntries, locationBreadcrumbs, locationDepartures,
                   events, responses, req, budget, ledger, syncReplies, clients>>
    /\ UNCHANGED <<hookVars, dashVars>>

\* The state after the clock-in of worker e1 at time 0, when the dashboard of
\* the worker has been given the session and no position so far.
InitDash ==
    /\ backend \in {"mem", "drizzle"}
    /\ now = 0
    /\ timeEntries = <<[employeeId |-> "e1", clockInTime |-> 0,
                        clockOutTime |-> Null, totalHours |-> Null,
                        isActive |-> TRUE]>>
    /\ locationBreadcrumbs = <<>>
    /\ locationDepartures = <<>>
    /\ events = SetToBag({[type |-> "CLOCK_IN", id |-> 1]})
    /\ responses = SetToBag({"201 clocked in"})
    /\ req = [r \in Reqs |-> Idle]
    /\ budget = 0
    /\ ledger = EmptyBag
    /\ syncReplies = EmptyBag
    /\ clients = [c \in Listeners |-> Absent]
    /\ Unmounted
    /\ activeTimeEntry = 1
    /\ geolocation = NoPosition
    /\ currentLocation = NoPosition
    /\ breadcrumbs = <<>>
    /\ sentAt = <<>>

\* The watch reports positions, the query refetches, the requests the
\* dashboard has sent reach the server in the order they were sent in, and
\* the server handles them.
NextDash ==
    \/ \E position \in Positions : updatePosition(position)
    \/ refetch
    \/ \E r \in Reqs :
           /\ budget > 0
           /\ BreadcrumbRequest(r, NextPost.timeEntryId, NextPost.coords)
    \/ \E r \in Reqs : BreadcrumbCreate(r)
    \/ \E r \in Reqs : BreadcrumbGetAll(r)
    \/ \E r \in Reqs : BreadcrumbCreateDeparture(r)
    \/ \E r \in Reqs : BreadcrumbSync(r)
    \/ \E r \in Reqs : BreadcrumbMark(r)
    \/ \E r \in Reqs : BreadcrumbMarkThrows(r)
    \/ DashTick

SpecDash == InitDash /\ [][NextDash]_vars

(* ------------------------------ sessions ------------------------------ *)

\* The sessions of a worker that are active: isActive and no clockOutTime.
ActiveSessionsOf(employeeId) ==
    { i \in TimeEntryIds : /\ timeEntries[i].employeeId = employeeId
                           /\ timeEntries[i].isActive
                           /\ timeEntries[i].clockOutTime = Null }

Sent(code) == CopiesIn(code, responses)

\* C1: in every reachable state each worker has at most one active session.
AtMostOneActivePerWorker ==
    \A e \in Employees : Cardinality(ActiveSessionsOf(e)) <= 1

\* C2: once the clock-in requests that ran concurrently have all been
\* answered, at most one session of the worker is active.
ConcurrentClockInsLeaveOneActive ==
    (\A r \in Reqs : req[r].pc \notin {"ci_getActive", "ci_create"})
        => \A e \in Employees : Cardinality(ActiveSessionsOf(e)) <= 1

\* C3: a clock-in whose check finds the worker with an active session is
\* answered with the conflict error, and that handler creates no session,
\* leaves the sessions as they are and broadcasts nothing.
ClockInConflictIsRejected ==
    [][\A r \in Reqs :
         ( /\ req[r].pc = "ci_getActive"
           /\ req'[r] # req[r]
           /\ ActiveSessionsOf(req[r].employeeId) # {} )
         => /\ req'[r].pc = "idle"
            /\ Sent("400 already clocked in")' = Sent("400 already clocked in") + 1
            /\ timeEntries' = timeEntries
            /\ events' = events]_vars

\* A clock-in was refused because its worker was clocked in.
ClockInConflictSeen ==
    /\ Sent("400 already clocked in") > 0
    /\ \E e \in Employees : ActiveSessionsOf(e) # {}

\* C4: a clock-out of a session that is closed is answered with the conflict
\* error and leaves the session as it is; the clock-out of an open session
\* sets clockOutTime, sets isActive to false and records totalHours.
ClockOutClosesOnce ==
    [][\A r \in Reqs :
         /\ ( /\ req[r].pc = "co_get"
              /\ req'[r] # req[r]
              /\ req[r].id \in TimeEntryIds
              /\ timeEntries[req[r].id].clockOutTime # Null )
            => /\ req'[r].pc = "idle"
               /\ Sent("400 already clocked out")' = Sent("400 already clocked out") + 1
               /\ timeEntries' = timeEntries
               /\ events' = events
         /\ ( /\ req[r].pc = "co_update"
              /\ req'[r] # req[r] )
            => /\ Sent("200 clocked out")' = Sent("200 clocked out") + 1
               /\ timeEntries'[req[r].id].clockOutTime = req[r].t
               /\ timeEntries'[req[r].id].clockOutTime # Null
               /\ ~timeEntries'[req[r].id].isActive
               /\ timeEntries'[req[r].id].totalHours # Null
               /\ \A i \in TimeEntryIds \ {req[r].id} :
                      timeEntries'[i] = timeEntries[i]]_vars

\* A session was closed and a later clock-out of it was refused.
ClockOutConflictSeen ==
    /\ Sent("200 clocked out") > 0
    /\ Sent("400 already clocked out") > 0

(* ---------------------- breadcrumbs and departures -------------------- *)

\* The breadcrumbs of a session (their indices) in the order of their
\* capture, which is the order in which they were appended.
CrumbsOf(id) ==
    SelectSeq([i \in 1..Len(locationBreadcrumbs) |-> i],
              LAMBDA i : locationBreadcrumbs[i].timeEntryId = id)

DeparturesOf(id) ==
    { d \in DOMAIN locationDepartures : locationDepartures[d].timeEntryId = id }

\* The steps of a session from one breadcrumb to the next that are longer
\* than the threshold.
FarSteps(id) ==
    LET c == CrumbsOf(id)
    IN  { k \in 2..Len(c) :
            DistanceExceeds(Coords(locationBreadcrumbs[c[k - 1]]),
                            Coords(locationBreadcrumbs[c[k]])) }

\* No report for the session is between the insert of its breadcrumb and
\* the insert of the departure it detects.
Detected(id) ==
    \A r \in Reqs : req[r].pc \in {"bc_getAll", "bc_createDeparture"}
                        => req[r].id # id

\* C5: a breadcrumb is appended only to a session that exists and is active
\* at that moment.
BreadcrumbOnlyForActiveSession ==
    [][Len(locationBreadcrumbs') > Len(locationBreadcrumbs)
         => LET b == locationBreadcrumbs'[Len(locationBreadcrumbs')]
            IN  /\ b.timeEntryId \in TimeEntryIds
                /\ timeEntries[b.timeEntryId].isActive
                /\ timeEntries[b.timeEntryId].clockOutTime = Null]_vars

\* C6: no breadcrumb of a session is stored with a latitude or a longitude
\* that is not a finite number.
StoredCoordinatesAreFinite ==
    \A i \in DOMAIN locationBreadcrumbs :
        locationBreadcrumbs[i].timeEntryId \in TimeEntryIds
            => /\ locationBreadcrumbs[i].latitude.kind = "num"
               /\ locationBreadcrumbs[i].longitude.kind = "num"

\* C7: once the reports of a session have made their comparison, the session
\* has one departure for every step between two consecutive breadcrumbs that
\* is longer than the threshold, and no other.
OneDeparturePerFarStep ==
    \A id \in TimeEntryIds :
        Detected(id) => Cardinality(DeparturesOf(id)) = Cardinality(FarSteps(id))

\* C8: the from and to snapshots of a departure are the coordinates of two
\* breadcrumbs of its session that follow one another.
DepartureJoinsAdjacentBreadcrumbs ==
    \A d \in DOMAIN locationDepartures :
        LET c == CrumbsOf(locationDepartures[d].timeEntryId)
        IN  \E k \in 2..Len(c) :
              /\ Coords(locationBreadcrumbs[c[k - 1]]) = locationDepartures[d].fromLocation
              /\ Coords(locationBreadcrumbs[c[k]]) = locationDepartures[d].toLocation

\* The coordinates of the breadcrumbs of a session, in the order of capture.
TrackOf(id) ==
    [k \in 1..Len(CrumbsOf(id)) |-> Coords(locationBreadcrumbs[CrumbsOf(id)[k]])]

\* (40.0000, -75.0000), (40.0010, -75.0000) and (40.00105, -75.0000), less
\* (40, -75): 0.0010 degrees are 2220 units and 0.00105 degrees 2331.
P0 == <<Num(0), Num(0)>>
P1 == <<Num(2220), Num(0)>>
P2 == <<Num(2331), Num(0)>>

\* C9: a session with the breadcrumbs P0, P1, P2 reported one after the other
\* has no departure after P0, one after P1 and still one after P2.
EndToEndScenario ==
    \A id \in TimeEntryIds :
        Detected(id) =>
            /\ TrackOf(id) = <<P0>> => Cardinality(DeparturesOf(id)) = 0
            /\ TrackOf(id) = <<P0, P1>> => Cardinality(DeparturesOf(id)) = 1
            /\ TrackOf(id) = <<P0, P1, P2>> => Cardinality(DeparturesOf(id)) = 1

\* C10: the breadcrumbs getBreadcrumbsByTimeEntry returns for a session are in
\* the order of their timestamps, the oldest first.
BreadcrumbsReturnedOldestFirst ==
    \A id \in KnownIds :
        LET s == getBreadcrumbsByTimeEntry(id)
        IN  \A k \in 1..(Len(s) - 1) :
              locationBreadcrumbs[s[k]].timestamp
                  <= locationBreadcrumbs[s[k + 1]].timestamp

(* ------------------------------- sync --------------------------------- *)

\* A request is being handled.
Busy == \E r \in Reqs : req[r].pc # "idle"

\* C11: a departure that is synced is synced in every later state, whatever
\* the step: a report, an immediate publish, a bulk sync, a mark that the
\* database rejects, a clock-out.
SyncedStaysSynced ==
    [][\A d \in DOMAIN locationDepartures :
          locationDepartures[d].synced
              => /\ d \in DOMAIN locationDepartures'
                 /\ locationDepartures'[d].synced]_vars

\* A bulk sync is about to mark a departure that another handler has marked.
SyncedDepartureMarkedAgain ==
    \E r \in Reqs : /\ req[r].pc = "bs_mark"
                    /\ locationDepartures[SyncCurrent(r)].synced

\* C12: markDepartureSynced is idempotent.  On a departure that is synced it
\* leaves the table as it is, and on any departure, or on an id that is none,
\* a second call changes nothing of what the first call left.
MarkSyncedIsIdempotent ==
    \A id \in DOMAIN locationDepartures \cup {NoSuchId} :
        LET once == setSynced(locationDepartures, id)
        IN  /\ setSynced(once, id) = once
            /\ (id \in DOMAIN locationDepartures /\ locationDepartures[id].synced)
                   => /\ once = locationDepartures
                      /\ markDepartureSynced(id) = locationDepartures

\* With MemStorage, whose markDepartureSynced never throws, a departure was
\* sent out twice, by its report and by a bulk sync, and so marked twice.
MarkedTwice ==
    /\ ~Busy
    /\ backend = "mem"
    /\ \E d \in DOMAIN locationDepartures :
           /\ locationDepartures[d].synced
           /\ CopiesIn(d, ledger) >= 2

BulkSyncAccounts ==
    [][\A r \in Reqs :
         /\ (req[r].pc = "bs_get" /\ req'[r].pc = "bs_sync")
                => { req'[r].unsynced[i] : i \in DOMAIN req'[r].unsynced } = UnsyncedIds
         /\ (req[r].pc \in {"bs_get", "bs_mark"} /\ req'[r].pc = "idle")
                => \E e \in BagToSet(events') :
                      /\ e.type = "SYNC_COMPLETE"
                      /\ events' = events (+) SetToBag({e})
                      /\ [i \in DOMAIN e.results |-> e.results[i].id] = req[r].unsynced
                      /\ LET failed == { i \in DOMAIN e.results : ~e.results[i].success }
                         IN  /\ syncReplies' = syncReplies (+) SetToBag(
                                    {[synced |-> Len(e.results) - Cardinality(failed),
                                      failed |-> Cardinality(failed)]})
                             /\ \A i \in DOMAIN e.results :
                                    locationDepartures'[e.results[i].id].synced
                                        <=> i \notin failed]_vars

\* C16: the body a bulk sync answers with tells, for the departures it
\* failed on, which they are and why: a body that counts a failure has more
\* in it than the two counts.
BulkSyncReplyNamesFailures ==
    \A m \in BagToSet(syncReplies) :
        m.failed > 0 => DOMAIN m \ {"synced", "failed"} # {}

\* C17: the ledger has at most one entry for a departure.
LedgerHasNoDuplicates ==
    \A d \in DOMAIN locationDepartures : CopiesIn(d, ledger) <= 1

\* The departure has a failure among the results a bulk sync has broadcast.
HasFailedInBulkSync(d) ==
    \E e \in BagToSet(events) :
        /\ e.type = "SYNC_COMPLETE"
        /\ \E i \in DOMAIN e.results : e.results[i].id = d /\ ~e.results[i].success

\* C18: a departure is synced only if it has been sent out, and a departure
\* that bulk syncs failed on and that is synced at last, with no request in
\* flight, has exactly one entry in the ledger.
RetriedDepartureIsPublishedOnce ==
    \A d \in DOMAIN locationDepartures :
        /\ locationDepartures[d].synced => CopiesIn(d, ledger) >= 1
        /\ (HasFailedInBulkSync(d) /\ locationDepartures[d].synced /\ ~Busy)
               => CopiesIn(d, ledger) = 1

\* C19: what getUnsyncedDepartures returns is the departures that are not
\* synced, each once, the oldest timestamp first.
UnsyncedReturnedOldestFirst ==
    \A unsynced \in getUnsyncedDepartures :
        /\ { unsynced[i] : i \in DOMAIN unsynced } = UnsyncedIds
        /\ Len(unsynced) = Cardinality(UnsyncedIds)
        /\ \A k \in 1..(Len(unsynced) - 1) :
               locationDepartures[unsynced[k]].timestamp
                   <= locationDepartures[unsynced[k + 1]].timestamp

\* The departures a bulk sync has yet to give a result: the one it is
\* sending out or marking, and the ones after it.
PendingIn(r) ==
    IF req[r].pc \in {"bs_sync", "bs_mark"}
    THEN { req[r].unsynced[i] : i \in (Len(req[r].results) + 1)..Len(req[r].unsynced) }
    ELSE {}

\* C20: no departure is pending in two bulk syncs at once.
BulkSyncsDoNotOverlap ==
    \A r1, r2 \in Reqs : r1 # r2 => PendingIn(r1) \cap PendingIn(r2) = {}

(* ---------------------------- serialization --------------------------- *)

\* The place of a breadcrumb among the breadcrumbs of its session, in the
\* order in which they were appended.
PlaceOf(crumb) ==
    LET c == CrumbsOf(locationBreadcrumbs[crumb].timeEntryId)
    IN  CHOOSE k \in DOMAIN c : c[k] = crumb

\* The breadcrumb appended to the session immediately before the breadcrumb
\* (which is not the first of its session).
AppendedBefore(crumb) ==
    CrumbsOf(locationBreadcrumbs[crumb].timeEntryId)[PlaceOf(crumb) - 1]

\* C21: whatever the interleaving of the reports of a session, the detection
\* of a report compares its own breadcrumb with the breadcrumb appended
\* immediately before it: it goes on to create a departure exactly when its
\* breadcrumb is not the first and is farther than the threshold from that
\* breadcrumb, and the departure starts at that breadcrumb.
ReportsAreSerialized ==
    [][\A r \in Reqs :
         (req[r].pc = "bc_getAll" /\ req'[r] # req[r])
             => LET own == req[r].crumb
                    far == /\ PlaceOf(own) > 1
                           /\ DistanceExceeds(
                                  Coords(locationBreadcrumbs[AppendedBefore(own)]),
                                  Coords(locationBreadcrumbs[own]))
                IN  /\ req'[r].pc = "bc_createDeparture" <=> far
                    /\ far => req'[r].from
                                  = Coords(locationBreadcrumbs[AppendedBefore(own)])]_vars

\* C22: a report does not wait for the publish.  The step that stores the
\* departure, with which the breadcrumb is stored and the detection is done,
\* answers the caller 201; syncToGoogleSheets, slow or never returning, is
\* not between that step and the answer.
ReportDoesNotWaitForPublish ==
    [][\A r \in Reqs :
         (req[r].pc = "bc_createDeparture" /\ req'[r] # req[r])
             => /\ req'[r].pc = "idle"
                /\ Sent("201 breadcrumb")' = Sent("201 breadcrumb") + 1]_vars

(* ------------------------- eventual consistency ----------------------- *)

\* The departures there may be when a bulk sync is invoked: the bulk sync
\* is one request, the first departure takes two reports and every other
\* departure one more.
DepartureIds == 1..(MaxSyncOps - 2)

\* The failures a departure may have when a bulk sync is invoked: one for
\* every bulk sync before, after the two reports of the departure.
FailureCounts == 0..(MaxSyncOps - 3)

\* The failures on the departure that bulk syncs have broadcast.
FailuresOf(d) ==
    LET FailsIn(e) == IF e.type = "SYNC_COMPLETE"
                      THEN Cardinality({ i \in DOMAIN e.results :
                                           /\ e.results[i].id = d
                                           /\ ~e.results[i].success })
                      ELSE 0
        RECURSIVE Sum(_)
        Sum(S) == IF S = {} THEN 0
                  ELSE LET e == CHOOSE x \in S : TRUE
                       IN  CopiesIn(e, events) * FailsIn(e) + Sum(S \ {e})
    IN  Sum(BagToSet(events))

IsUnsynced(d) == d \in DOMAIN locationDepartures /\ ~locationDepartures[d].synced

IsSynced(d) == d \in DOMAIN locationDepartures /\ locationDepartures[d].synced

\* A bulk sync has been asked for and has yet to read the departures.
BulkSyncInvoked == \E r \in Reqs : req[r].pc = "bs_get"

IsOpen(c) == clients[c].readyState = "open"

\* What has been handed to the sockets of a listener and was not lost.
HandedTo(c) == clients[c].received (+) clients[c].buffered

\* C24: a broadcast hands its event to every listener that is connected and
\* open at that moment, and to no other; and an event comes to a listener
\* by no other way: a step that broadcasts nothing hands nothing to any
\* socket, a listener receives only what its socket was handed, and a socket
\* that connects starts with nothing of what was broadcast before.
BroadcastReachesOpenListenersOnly ==
    [][LET new == events' (-) events
       IN  IF events' # events
           THEN \A c \in Listeners :
                  clients'[c] = IF IsOpen(c)
                                THEN [clients[c] EXCEPT !.buffered = @ (+) new]
                                ELSE clients[c]
           ELSE \A c \in Listeners :
                  /\ clients'[c].buffered \sqsubseteq clients[c].buffered
                  /\ clients'[c].received \sqsubseteq HandedTo(c)
                  /\ clients[c].readyState = "absent"
                         => /\ clients'[c].buffered = EmptyBag
                            /\ clients'[c].received = clients[c].received]_vars

\* A listener has received an event that another listener, which connected
\* after it was broadcast and has been handed a later event, has not.
LateListenerMissedEvent ==
    \E c1, c2 \in Listeners :
        /\ c1 # c2
        /\ IsOpen(c2)
        /\ clients[c2].buffered # EmptyBag
        /\ \E m \in BagToSet(clients[c1].received) : CopiesIn(m, HandedTo(c2)) = 0

\* The socket of the listener takes data and writes none out: the delivery to
\* it is blocked, and fails when the socket is closed.
Blocked(c) == IsOpen(c) /\ clients[c].broken

\* C25: a broadcast made while the delivery to a listener is blocked or fails
\* hands the event to every open listener all the same, and the operation
\* that broadcasts has its usual outcome: the clock-in, the clock-out, the
\* report or the bulk sync is answered as a success and what it stored
\* stays stored.
BlockedListenerIsIsolated ==
    [][(events' # events /\ \E b \in Listeners : Blocked(b)) =>
         /\ \A c \in Listeners :
              IsOpen(c) => clients'[c].buffered
                               = clients[c].buffered (+) (events' (-) events)
         /\ \A r \in Reqs :
              req'[r] # req[r] =>
                /\ req'[r].pc = "idle"
                /\ CASE req[r].pc = "ci_create" ->
                          /\ Sent("201 clocked in")' = Sent("201 clocked in") + 1
                          /\ Len(timeEntries') = Len(timeEntries) + 1
                          /\ ActiveEntry(timeEntries'[Len(timeEntries')])
                     [] req[r].pc = "co_update" ->
                          /\ Sent("200 clocked out")' = Sent("200 clocked out") + 1
                          /\ ~timeEntries'[req[r].id].isActive
                          /\ timeEntries'[req[r].id].clockOutTime = req[r].t
                     [] req[r].pc \in {"bc_getAll", "bc_mark"} ->
                          /\ Sent("201 breadcrumb")' = Sent("201 breadcrumb") + 1
                          /\ locationBreadcrumbs' = locationBreadcrumbs
                          /\ req[r].crumb \in DOMAIN locationBreadcrumbs
                          /\ Len(locationDepartures') = Len(locationDepartures)
                     [] req[r].pc \in {"bs_get", "bs_mark"} ->
                          /\ BagCardinality(syncReplies') = BagCardinality(syncReplies) + 1
                          /\ responses' = responses
                          /\ Len(locationDepartures') = Len(locationDepartures)
                     [] OTHER -> FALSE]_vars

\* A listener that has received nothing is blocked with two events or more in
\* the buffer of its socket, and the other listener has received them.
OtherListenerReceivedPastBlocked ==
    \E b, c \in Listeners :
        /\ b # c
        /\ Blocked(b)
        /\ clients[b].received = EmptyBag
        /\ BagCardinality(clients[b].buffered) >= 2
        /\ clients[b].buffered \sqsubseteq clients[c].received

(* ------------------------------ departures ---------------------------- *)

\* The fields of a departure that are set when it is created.
Snapshot(dep) ==
    [timeEntryId |-> dep.timeEntryId, fromLocation |-> dep.fromLocation,
     toLocation |-> dep.toLocation, distance |-> dep.distance,
     timestamp |-> dep.timestamp]

\* C26: a departure that is stored stays stored, and its session, its from
\* and to snapshots, its distance and its timestamp are in every later state
\* what they were when it was created; no step changes a field of a departure
\* other than synced.
DepartureIsImmutable ==
    [][\A d \in DOMAIN locationDepartures :
          /\ d \in DOMAIN locationDepartures'
          /\ Snapshot(locationDepartures'[d]) = Snapshot(locationDepartures[d])
          /\ DOMAIN locationDepartures'[d] = DOMAIN locationDepartures[d]]_vars

\* A departure from (0, 0) to the place 111 m away has been marked synced, at
\* a later time than it was created.
SyncedDepartureKeptItsFields ==
    \E d \in DOMAIN locationDepartures :
        /\ locationDepartures[d].synced
        /\ locationDepartures[d].timestamp < now
        /\ locationDepartures[d].fromLocation = <<Num(0), Num(0)>>
        /\ locationDepartures[d].toLocation = <<Num(2220), Num(0)>>
        /\ locationDepartures[d].distance = 2220 * 2220

(* -------------------------------- hours ------------------------------- *)

\* n / d rounded to the nearest whole number, the half upwards (n >= 0).
Rounded(n, d) == (2 * n + d) \div (2 * d)

\* C27: a session that is closed has as its totalHours, in hundredths of an
\* hour, the time from its clockInTime to its clockOutTime divided by 36000
\* and rounded.
TotalHoursIsRoundedElapsed ==
    \A i \in TimeEntryIds :
        timeEntries[i].clockOutTime # Null
            => timeEntries[i].totalHours
                   = Rounded(timeEntries[i].clockOutTime - timeEntries[i].clockInTime,
                             36000)

(* ------------------------------ detection ----------------------------- *)

\* The breadcrumbs of the session have numbers as their coordinates.
AllFinite(id) ==
    \A k \in DOMAIN CrumbsOf(id) :
        /\ IsFinite(locationBreadcrumbs[CrumbsOf(id)[k]].latitude)
        /\ IsFinite(locationBreadcrumbs[CrumbsOf(id)[k]].longitude)

\* C28: a session whose breadcrumbs, reported one after the other, are each
\* within the threshold of the one before has no departure, however far its
\* last breadcrumb is from its first.
NearStepsMakeNoDeparture ==
    \A id \in TimeEntryIds :
        (AllFinite(id) /\ FarSteps(id) = {}) => DeparturesOf(id) = {}

\* No report of the session is in flight.
ReportsFinished(id) ==
    \A r \in Reqs :
        req[r].pc \in {"bc_create", "bc_getAll", "bc_createDeparture",
                       "bc_sync", "bc_mark"} => req[r].id # id

\* C29: when the reports of a session have finished, whatever their outcome,
\* every stored breadcrumb that is farther than the threshold from the one
\* before it has a departure stored from the one to the other.
AppendAndDetectAreAtomic ==
    \A id \in TimeEntryIds :
        ReportsFinished(id) =>
            \A k \in FarSteps(id) :
                \E d \in DeparturesOf(id) :
                    /\ locationDepartures[d].fromLocation = TrackOf(id)[k - 1]
                    /\ locationDepartures[d].toLocation = TrackOf(id)[k]

(* ------------------------------- events ------------------------------- *)

ReportPcs == {"bc_create", "bc_getAll", "bc_createDeparture", "bc_sync", "bc_mark"}

Event(type, id) == SetToBag({[type |-> type, id |-> id]})

\* C30: a report broadcasts nothing before it is answered.  A report that is
\* answered 201 broadcasts, as it is answered, one LOCATION_UPDATE of its
\* breadcrumb, and with it one LOCATION_DEPARTURE of its departure if it
\* created one and none if it did not.  A report that is refused, by the
\* schema or by a failure of the storage, broadcasts nothing.  No breadcrumb
\* and no departure is broadcast twice.
ReportBroadcastsOncePerEvent ==
    [][/\ \A r \in Reqs :
            /\ (req[r].pc \in ReportPcs /\ req'[r] # req[r] /\ req'[r].pc # "idle")
                   => events' = events
            /\ (req[r].pc \in ReportPcs /\ req'[r].pc = "idle") =>
                   IF Sent("201 breadcrumb")' = Sent("201 breadcrumb") + 1
                   THEN events' = events (+) Event("LOCATION_UPDATE", req[r].crumb)
                                         (+) (IF req[r].dep # 0
                                              THEN Event("LOCATION_DEPARTURE", req[r].dep)
                                              ELSE EmptyBag)
                   ELSE events' = events
       /\ (budget' < budget /\ req' = req) => events' = events
       /\ \A b \in DOMAIN locationBreadcrumbs' :
            CopiesIn([type |-> "LOCATION_UPDATE", id |-> b], events') <= 1
       /\ \A d \in DOMAIN locationDepartures' :
            CopiesIn([type |-> "LOCATION_DEPARTURE", id |-> d], events') <= 1]_vars

\* A report that created no departure, a report that created one and whose
\* mark threw, and a report that was refused have been answered.
ReportsOfEachKindAnswered ==
    /\ ~Busy
    /\ Sent("201 breadcrumb") = 2
    /\ Sent("400 invalid breadcrumb data") + Sent("500 failed to create breadcrumb") = 1
    /\ \E d \in DOMAIN locationDepartures :
           /\ ~locationDepartures[d].synced
           /\ CopiesIn([type |-> "LOCATION_DEPARTURE", id |-> d], events) = 1
           /\ CopiesIn(d, ledger) = 1

(* --------------------------- closing a session ------------------------ *)

\* The CLOCK_OUT messages broadcast for the session.
ClockOutsBroadcast(i) == CopiesIn([type |-> "CLOCK_OUT", id |-> i], events)

\* C31: once a session has its clockOutTime and totalHours they are not
\* written again, and of the clock-out requests for it, concurrent ones
\* included, at most one succeeds and broadcasts CLOCK_OUT.
SessionIsClosedAtMostOnce ==
    [][\A i \in TimeEntryIds :
         /\ timeEntries[i].clockOutTime # Null
               => /\ timeEntries'[i].clockOutTime = timeEntries[i].clockOutTime
                  /\ timeEntries'[i].totalHours = timeEntries[i].totalHours
         /\ ClockOutsBroadcast(i)' <= 1]_vars

(* ------------------------- after the clock-out ------------------------ *)

\* The session of the worker created last, NoSuchId when it has none.
LastSessionOf(employeeId) ==
    LET own == { i \in TimeEntryIds : timeEntries[i].employeeId = employeeId }
    IN  IF own = {} THEN NoSuchId
        ELSE CHOOSE i \in own : \A j \in own : j <= i

\* The session has been closed by a clock-out.
IsClosed(i) == timeEntries[i].clockOutTime # Null /\ ~timeEntries[i].isActive

\* C32: when the clock-out of a worker's active session succeeds,
\* getActiveTimeEntry of the worker gives none; a clock-in of the worker that
\* follows, the last session of the worker being closed, passes the check,
\* creates a new active session and is answered 201; and a session that is
\* closed stays closed.
ClockOutFreesTheWorker ==
    [][/\ \A r \in Reqs, e \in Employees :
            ( /\ req[r].pc = "co_update"
              /\ req'[r] # req[r]
              /\ ActiveEntry(timeEntries[req[r].id])
              /\ timeEntries[req[r].id].employeeId = e )
            => getActiveTimeEntry(e)' = NoSuchId
       /\ \A r \in Reqs :
            ( /\ req[r].pc = "ci_getActive"
              /\ req'[r] # req[r]
              /\ LastSessionOf(req[r].employeeId) # NoSuchId
              /\ IsClosed(LastSessionOf(req[r].employeeId)) )
            => req'[r].pc = "ci_create"
       /\ \A r \in Reqs :
            ( /\ req[r].pc = "ci_create"
              /\ req'[r] # req[r] )
            => /\ Len(timeEntries') = Len(timeEntries) + 1
               /\ timeEntries'[Len(timeEntries')].employeeId = req[r].employeeId
               /\ ActiveEntry(timeEntries'[Len(timeEntries')])
               /\ Sent("201 clocked in")' = Sent("201 clocked in") + 1
       /\ \A i \in TimeEntryIds :
            IsClosed(i) => IsClosed(i)' /\ ~ActiveEntry(timeEntries'[i])]_vars

(* ----------------------------- reconnection --------------------------- *)

\* Socket s gets its close event in the step.
Closes(s) == sockets[s].readyState # "CLOSED" /\ sockets'[s].readyState = "CLOSED"

\* C33: the reconnections scheduled since a socket last opened are never more
\* than reconnectAttempts; the open event of a socket sets the counter of
\* attempts to 0; and a close event with wasClean true makes no timer.
ReconnectionsAreCapped ==
    [][/\ scheduled' <= ReconnectAttempts
       /\ \A s \in DOMAIN sockets :
            (sockets[s].readyState = "CONNECTING" /\ sockets'[s].readyState = "OPEN")
                => reconnectAttemptsRef' = 0
       /\ \A s \in DOMAIN sockets :
            (Closes(s) /\ sockets'[s].wasClean)
                => (timers' = timers /\ reconnectAttemptsRef' = reconnectAttemptsRef)
       /\ Len(timers') > Len(timers)
            => \E s \in DOMAIN sockets : Closes(s) /\ ~sockets'[s].wasClean]_vars

\* Every attempt has been made and has failed, and the failure of the last
\* one has made no timer.
AttemptsUsedUp ==
    /\ reconnectAttemptsRef = ReconnectAttempts
    /\ Len(timers) = ReconnectAttempts
    /\ \A t \in DOMAIN timers : timers[t] = "fired"
    /\ Len(sockets) = ReconnectAttempts + 1
    /\ \A s \in DOMAIN sockets : sockets[s].readyState = "CLOSED"

(* ------------------------------ disconnect ---------------------------- *)

\* C34: from a call of disconnect() to the next call of connect() no timer is
\* pending, no close event makes a timer, the one of the socket disconnect()
\* closed included, and no socket is made.
NoConnectionAfterDisconnect ==
    [][(disconnected /\ disconnected')
            => /\ Len(sockets') = Len(sockets)
               /\ Len(timers') = Len(timers)
               /\ \A t \in DOMAIN timers : timers[t] # "pending"]_vars

(* ----------------------------- isConnected ---------------------------- *)

\* The socket held in wsRef is open.
CurrentIsOpen == wsRef # Null /\ sockets[wsRef].readyState = "OPEN"

\* C35: isConnected is true exactly when the socket held in wsRef is open,
\* and the close event of a socket other than the one held in wsRef leaves
\* wsRef and isConnected as they are.
IsConnectedTracksCurrentSocket ==
    [][/\ isConnected' = CurrentIsOpen'
       /\ \A s \in DOMAIN sockets :
            (Closes(s) /\ wsRef # Null /\ wsRef # s)
                => (wsRef' = wsRef /\ isConnected' = isConnected)]_vars

(* ------------------------------ throttle ------------------------------ *)

\* C36: between two breadcrumb reports the dashboard sends for one session
\* at least 120000 ms elapse.
ReportsAreThrottled ==
    \A i, j \in DOMAIN sentAt :
        (i < j /\ sentAt[i].timeEntryId = sentAt[j].timeEntryId)
            => sentAt[j].at - sentAt[i].at >= 120000

====
